---- MODULE Spec2Model ----
(***************************************************************************)
(* The key-value store of Redis.go: the Database singleton (GetInstance    *)
(* behind a sync.Once), its two maps data and expiration guarded by the    *)
(* mutex mu, and the operations Set, Get, Delete, Exists, Keys and         *)
(* SetExpiration, each modelled statement by statement for every calling   *)
(* goroutine.  Time is counted in clock ticks; one second is Second ticks  *)
(* (time.Second nanoseconds in Go), and a time.Duration is a signed        *)
(* integer of DurationBits bits (64 in Go) that wraps on overflow.         *)
(***************************************************************************)
EXTENDS Integers, Sequences, FiniteSets, TLC

\* ---- bounds of the model ----
MaxClock == 3
DurationBits == 3
NumCallers == 3

\* ---- scaled program constant: ticks per second (time.Second) ----
Second == 2

\* The goroutines of the concurrent specification, of the sequential one (the
\* loop of main), and the first-time callers of GetInstance.
Procs == {1, 2}
SeqProcs == {1}
Callers == 1..NumCallers

Keys == {"a", "b"}
Values == {"1", "2"}

\* time.Duration is a signed integer: its largest value, and the smallest
\* number of seconds whose product with Second no longer fits.
MaxDuration == 2^(DurationBits - 1) - 1
BigTTL == (MaxDuration \div Second) + 1

\* The ttl arguments of the sequential specification, and those with one more
\* whose duration overflows.
TTLs == {-1, 0, 1}
WideTTLs == TTLs \cup {BigTTL}

\* The largest negative number of seconds whose product with Second no longer
\* fits, and the ttl arguments with it.
NegBigTTL == -BigTTL - 1
NegTTLs == TTLs \cup {NegBigTTL}

\* The inputs of the concurrent specification.
FewValues == {"1"}
FewTTLs == {0, 1}

Nil == 0
NoProc == 0

VARIABLES
    now,         \* the clock read by time.Now(), in ticks
    once,        \* var once sync.Once: its done flag and its mutex
    instance,    \* var instance *Database (Nil, or the number of the object)
    constructed, \* how many Database objects have been constructed
    data,        \* Database.data
    expiration,  \* Database.expiration
    mu,          \* Database.mu: the goroutine holding it, or NoProc
    pc,          \* each goroutine's position
    db,          \* each goroutine's handle, the result of its GetInstance()
    arg,         \* the call each goroutine is executing, with its arguments
    local,       \* the locals of that call
    ret,         \* the result that call is returning
    tracing,     \* whether the driver keeps last
    last         \* the call that returned last, if the clock has not advanced
                 \* since it was made and no call but a Get was made after it

vars == <<now, once, instance, constructed, data, expiration, mu, pc, db,
          arg, local, ret, tracing, last>>

store == <<data, expiration>>
single == <<once, instance, constructed>>

\* ---- pure helpers ----

EmptyMap == [k \in {} |-> ""]

\* m[k] = v
Put(m, k, v) == [x \in (DOMAIN m) \cup {k} |-> IF x = k THEN v ELSE m[x]]

\* delete(m, k)
Del(m, k) == [x \in (DOMAIN m) \ {k} |-> m[x]]

\* Two's-complement wrap-around of a time.Duration.
Wrap(x) == ((x + 2^(DurationBits - 1)) % (2^DurationBits)) - 2^(DurationBits - 1)

\* time.Duration(expiration) * time.Second
Seconds(e) == Wrap(e * Second)

\* time.Now().Add(time.Duration(expiration) * time.Second)
Deadline(e) == now + Seconds(e)

\* time.Now().After(t)
NowAfter(t) == now > t

Range(s) == {s[i] : i \in 1..Len(s)}

NoCall == [expiration |-> 0, key |-> "", op |-> "", value |-> ""]
CallOf(o, k, v, e) == [expiration |-> e, key |-> k, op |-> o, value |-> v]
TickEvent == [expiration |-> 0, key |-> "", op |-> "Tick", value |-> ""]
NoLocal == [keys |-> <<>>, m |-> EmptyMap, value |-> ""]
NoRet == [keys |-> <<>>, ok |-> FALSE, value |-> ""]

InitOf(P, t) ==
    /\ now = 0
    /\ once = [done |-> FALSE, m |-> NoProc]
    /\ instance = Nil
    /\ constructed = 0
    /\ data = EmptyMap
    /\ expiration = EmptyMap
    /\ mu = NoProc
    /\ pc = [p \in P |-> "idle"]
    /\ db = [p \in P |-> Nil]
    /\ arg = [p \in P |-> NoCall]
    /\ local = [p \in P |-> NoLocal]
    /\ ret = [p \in P |-> NoRet]
    /\ tracing = t
    /\ last = NoCall

\* ---- control helpers ----

Goto(p, l) == pc' = [pc EXCEPT ![p] = l]

\* A call of a Database method by a goroutine that holds the handle.
Call(p, c) ==
    /\ pc[p] = "idle"
    /\ db[p] # Nil
    /\ arg' = [arg EXCEPT ![p] = c]
    /\ Goto(p, c.op \o "_lock")
    /\ last' = IF c.op = "Get" THEN last ELSE NoCall
    /\ UNCHANGED <<now, single, store, mu, db, local, ret, tracing>>

\* db.mu.Lock()
Lock(p, from, to) ==
    /\ pc[p] = from
    /\ mu = NoProc
    /\ mu' = p
    /\ Goto(p, to)
    /\ UNCHANGED <<now, single, store, db, arg, local, ret, tracing, last>>

\* The deferred db.mu.Unlock(), and the return to the caller.
Unlock(p, from) ==
    /\ pc[p] = from
    /\ mu' = NoProc
    /\ last' = IF ~tracing THEN last
               ELSE IF last = TickEvent THEN NoCall
               ELSE arg[p]
    /\ arg' = [arg EXCEPT ![p] = NoCall]
    /\ local' = [local EXCEPT ![p] = NoLocal]
    /\ ret' = [ret EXCEPT ![p] = NoRet]
    /\ Goto(p, "idle")
    /\ UNCHANGED <<now, single, store, db, tracing>>

\* A map assignment or delete is not atomic in Go: it first computes the new
\* table from the one it finds (here), then installs it (StoreData,
\* StoreExpiration).
LoadMap(p, from, to, m) ==
    /\ pc[p] = from
    /\ local' = [local EXCEPT ![p].m = m]
    /\ Goto(p, to)
    /\ UNCHANGED <<now, single, store, mu, db, arg, ret, tracing, last>>

StoreData(p, from, to) ==
    /\ pc[p] = from
    /\ data' = local[p].m
    /\ local' = [local EXCEPT ![p].m = EmptyMap]
    /\ Goto(p, to)
    /\ UNCHANGED <<now, single, expiration, mu, db, arg, ret, tracing, last>>

StoreExpiration(p, from, to) ==
    /\ pc[p] = from
    /\ expiration' = local[p].m
    /\ local' = [local EXCEPT ![p].m = EmptyMap]
    /\ Goto(p, to)
    /\ UNCHANGED <<now, single, data, mu, db, arg, ret, tracing, last>>

\* A return statement: the result is set, the deferred Unlock runs next.
Return(p, from, r) ==
    /\ pc[p] = from
    /\ ret' = [ret EXCEPT ![p] = r]
    /\ Goto(p, arg[p].op \o "_unlock")
    /\ UNCHANGED <<now, single, store, mu, db, arg, local, tracing, last>>

\* ---- the clock ----

Tick ==
    /\ now < MaxClock
    /\ now' = now + 1
    /\ last' = IF tracing THEN TickEvent ELSE last
    /\ UNCHANGED <<single, store, mu, pc, db, arg, local, ret, tracing>>

\* ---- GetInstance ----

GetInstanceCall(p) ==
    /\ pc[p] = "idle"
    /\ Goto(p, "Once_load")
    /\ UNCHANGED <<now, single, store, mu, db, arg, local, ret, tracing, last>>

\* once.Do: the fast path, if o.done.Load() == 0 { o.doSlow(f) }
OnceLoad(p) ==
    /\ pc[p] = "Once_load"
    /\ Goto(p, IF once.done THEN "GetInstance_ret" ELSE "Once_lock")
    /\ UNCHANGED <<now, single, store, mu, db, arg, local, ret, tracing, last>>

\* doSlow: o.m.Lock()
OnceLock(p) ==
    /\ pc[p] = "Once_lock"
    /\ once.m = NoProc
    /\ once' = [once EXCEPT !.m = p]
    /\ Goto(p, "Once_check")
    /\ UNCHANGED <<now, instance, constructed, store, mu, db, arg, local, ret, tracing, last>>

\* A once that does not look at done again under its mutex.
OnceCheckBlind(p) ==
    /\ pc[p] = "Once_check"
    /\ Goto(p, "Construct")
    /\ UNCHANGED <<now, single, store, mu, db, arg, local, ret, tracing, last>>

\* doSlow: if o.done.Load() == 0 { defer o.done.Store(1); f() }
OnceCheck(p) ==
    /\ pc[p] = "Once_check"
    /\ Goto(p, IF once.done THEN "Once_unlock" ELSE "Construct")
    /\ UNCHANGED <<now, single, store, mu, db, arg, local, ret, tracing, last>>

\* f(): instance = &Database{data: make(...), expiration: make(...)}
Construct(p) ==
    /\ pc[p] = "Construct"
    /\ constructed' = constructed + 1
    /\ instance' = constructed + 1
    /\ data' = EmptyMap
    /\ expiration' = EmptyMap
    /\ Goto(p, "Once_store")
    /\ UNCHANGED <<now, once, mu, db, arg, local, ret, tracing, last>>

\* the deferred o.done.Store(1)
OnceStore(p) ==
    /\ pc[p] = "Once_store"
    /\ once' = [once EXCEPT !.done = TRUE]
    /\ Goto(p, "Once_unlock")
    /\ UNCHANGED <<now, instance, constructed, store, mu, db, arg, local, ret, tracing, last>>

\* the deferred o.m.Unlock()
OnceUnlock(p) ==
    /\ pc[p] = "Once_unlock"
    /\ once' = [once EXCEPT !.m = NoProc]
    /\ Goto(p, "GetInstance_ret")
    /\ UNCHANGED <<now, instance, constructed, store, mu, db, arg, local, ret, tracing, last>>

\* return instance
GetInstanceRet(p) ==
    /\ pc[p] = "GetInstance_ret"
    /\ db' = [db EXCEPT ![p] = instance]
    /\ Goto(p, "idle")
    /\ UNCHANGED <<now, single, store, mu, arg, local, ret, tracing, last>>

GetInstance(p) ==
    \/ GetInstanceCall(p)
    \/ OnceLoad(p)
    \/ OnceLock(p)
    \/ OnceCheck(p)
    \/ Construct(p)
    \/ OnceStore(p)
    \/ OnceUnlock(p)
    \/ GetInstanceRet(p)

\* ---- Set ----

SetCall(p, k, v, e) == Call(p, CallOf("Set", k, v, e))

\* A Set that enters its critical section without the lock.
SetLockSkips(p) ==
    /\ pc[p] = "Set_lock"
    /\ Goto(p, "Set_data")
    /\ UNCHANGED <<now, single, store, mu, db, arg, local, ret, tracing, last>>

SetLock(p) == Lock(p, "Set_lock", "Set_data")

\* db.data[key] = value
SetData(p) ==
    LoadMap(p, "Set_data", "Set_data_w", Put(data, arg[p].key, arg[p].value))

\* A Set that clears the deadline of its key when called without a ttl.
SetDataWClears(p) ==
    /\ pc[p] = "Set_data_w"
    /\ data' = local[p].m
    /\ expiration' = IF arg[p].expiration > 0 THEN expiration
                     ELSE Del(expiration, arg[p].key)
    /\ local' = [local EXCEPT ![p].m = EmptyMap]
    /\ Goto(p, IF arg[p].expiration > 0 THEN "Set_exp" ELSE "Set_unlock")
    /\ UNCHANGED <<now, single, mu, db, arg, ret, tracing, last>>

\* ... and: if expiration > 0 {
SetDataW(p) ==
    StoreData(p, "Set_data_w",
              IF arg[p].expiration > 0 THEN "Set_exp" ELSE "Set_unlock")

\* db.expiration[key] = time.Now().Add(time.Duration(expiration) * time.Second)
SetExp(p) ==
    LoadMap(p, "Set_exp", "Set_exp_w",
            Put(expiration, arg[p].key, Deadline(arg[p].expiration)))

SetExpW(p) == StoreExpiration(p, "Set_exp_w", "Set_unlock")

SetUnlock(p) == Unlock(p, "Set_unlock")

Set(p) ==
    \/ SetLock(p)
    \/ SetData(p)
    \/ SetDataW(p)
    \/ SetExp(p)
    \/ SetExpW(p)
    \/ SetUnlock(p)

\* ---- Get ----

GetCall(p, k) == Call(p, CallOf("Get", k, "", 0))

\* A Get that enters its critical section as a reader, without the mutex.
GetLockShares(p) ==
    /\ pc[p] = "Get_lock"
    /\ Goto(p, "Get_data")
    /\ UNCHANGED <<now, single, store, mu, db, arg, local, ret, tracing, last>>

GetLock(p) == Lock(p, "Get_lock", "Get_data")

\* value, ok := db.data[key]; if !ok { return "", false }
GetData(p) ==
    /\ pc[p] = "Get_data"
    /\ IF arg[p].key \in DOMAIN data
         THEN /\ local' = [local EXCEPT ![p].value = data[arg[p].key]]
              /\ Goto(p, "Get_exp")
              /\ UNCHANGED ret
         ELSE /\ ret' = [ret EXCEPT ![p] = [NoRet EXCEPT !.value = "", !.ok = FALSE]]
              /\ Goto(p, "Get_unlock")
              /\ UNCHANGED local
    /\ UNCHANGED <<now, single, store, mu, db, arg, tracing, last>>

\* A Get that already purges at the deadline itself (not After but not Before).
GetExpAtDeadline(p) ==
    /\ pc[p] = "Get_exp"
    /\ IF arg[p].key \in DOMAIN expiration /\ now >= expiration[arg[p].key]
         THEN /\ Goto(p, "Get_del_data")
              /\ UNCHANGED ret
         ELSE /\ ret' = [ret EXCEPT ![p] =
                            [NoRet EXCEPT !.value = local[p].value, !.ok = TRUE]]
              /\ Goto(p, "Get_unlock")
    /\ UNCHANGED <<now, single, store, mu, db, arg, local, tracing, last>>

\* A Get that forgets "exists &&": the zero time it reads for a key without an
\* expiration entry is before every now.
GetExpIgnoresExists(p) ==
    /\ pc[p] = "Get_exp"
    /\ IF arg[p].key \notin DOMAIN expiration \/ NowAfter(expiration[arg[p].key])
         THEN /\ Goto(p, "Get_del_data")
              /\ UNCHANGED ret
         ELSE /\ ret' = [ret EXCEPT ![p] =
                            [NoRet EXCEPT !.value = local[p].value, !.ok = TRUE]]
              /\ Goto(p, "Get_unlock")
    /\ UNCHANGED <<now, single, store, mu, db, arg, local, tracing, last>>

\* expiration, exists := db.expiration[key]
\* if exists && time.Now().After(expiration) { ... } return value, true
GetExp(p) ==
    /\ pc[p] = "Get_exp"
    /\ IF arg[p].key \in DOMAIN expiration /\ NowAfter(expiration[arg[p].key])
         THEN /\ Goto(p, "Get_del_data")
              /\ UNCHANGED ret
         ELSE /\ ret' = [ret EXCEPT ![p] =
                            [NoRet EXCEPT !.value = local[p].value, !.ok = TRUE]]
              /\ Goto(p, "Get_unlock")
    /\ UNCHANGED <<now, single, store, mu, db, arg, local, tracing, last>>

\* A purge that sweeps every key whose deadline has passed out of data.
GetDelDataSweeps(p) ==
    LoadMap(p, "Get_del_data", "Get_del_data_w",
            [k \in {x \in DOMAIN data :
                       ~(x \in DOMAIN expiration /\ NowAfter(expiration[x]))}
               |-> data[k]])

\* delete(db.data, key)
GetDelData(p) == LoadMap(p, "Get_del_data", "Get_del_data_w", Del(data, arg[p].key))

\* A purge whose delete of the data entry does not take effect.
GetDelDataWSkips(p) ==
    /\ pc[p] = "Get_del_data_w"
    /\ local' = [local EXCEPT ![p].m = EmptyMap]
    /\ Goto(p, "Get_del_exp")
    /\ UNCHANGED <<now, single, store, mu, db, arg, ret, tracing, last>>

GetDelDataW(p) == StoreData(p, "Get_del_data_w", "Get_del_exp")

\* delete(db.expiration, key)
GetDelExp(p) ==
    LoadMap(p, "Get_del_exp", "Get_del_exp_w", Del(expiration, arg[p].key))

GetDelExpW(p) == StoreExpiration(p, "Get_del_exp_w", "Get_expired")

\* A purge that returns to the caller without running the Unlock.
GetExpiredKeepsLock(p) ==
    /\ pc[p] = "Get_expired"
    /\ arg' = [arg EXCEPT ![p] = NoCall]
    /\ local' = [local EXCEPT ![p] = NoLocal]
    /\ Goto(p, "idle")
    /\ UNCHANGED <<now, single, store, mu, db, ret, tracing, last>>

\* return "", false
GetExpired(p) ==
    Return(p, "Get_expired", [NoRet EXCEPT !.value = "", !.ok = FALSE])

GetUnlock(p) == Unlock(p, "Get_unlock")

Get(p) ==
    \/ GetLock(p)
    \/ GetData(p)
    \/ GetExp(p)
    \/ GetDelData(p)
    \/ GetDelDataW(p)
    \/ GetDelExp(p)
    \/ GetDelExpW(p)
    \/ GetExpired(p)
    \/ GetUnlock(p)

\* ---- Delete ----

DeleteCall(p, k) == Call(p, CallOf("Delete", k, "", 0))

DeleteLock(p) == Lock(p, "Delete_lock", "Delete_data")

\* A Delete that leaves the data entry behind.
DeleteDataKeeps(p) == LoadMap(p, "Delete_data", "Delete_data_w", data)

\* delete(db.data, key)
DeleteData(p) == LoadMap(p, "Delete_data", "Delete_data_w", Del(data, arg[p].key))

DeleteDataW(p) == StoreData(p, "Delete_data_w", "Delete_exp")

\* A Delete that leaves the expiration entry behind.
DeleteExpKeeps(p) ==
    LoadMap(p, "Delete_exp", "Delete_exp_w", expiration)

\* delete(db.expiration, key)
DeleteExp(p) ==
    LoadMap(p, "Delete_exp", "Delete_exp_w", Del(expiration, arg[p].key))

DeleteExpW(p) == StoreExpiration(p, "Delete_exp_w", "Delete_unlock")

DeleteUnlock(p) == Unlock(p, "Delete_unlock")

Delete(p) ==
    \/ DeleteLock(p)
    \/ DeleteData(p)
    \/ DeleteDataW(p)
    \/ DeleteExp(p)
    \/ DeleteExpW(p)
    \/ DeleteUnlock(p)

\* ---- Exists ----

ExistsCall(p, k) == Call(p, CallOf("Exists", k, "", 0))

ExistsLock(p) == Lock(p, "Exists_lock", "Exists_data")

\* An Exists that does not report a key whose deadline has passed.
ExistsDataChecksTTL(p) ==
    Return(p, "Exists_data",
           [NoRet EXCEPT !.ok =
               /\ arg[p].key \in DOMAIN data
               /\ ~(/\ arg[p].key \in DOMAIN expiration
                    /\ NowAfter(expiration[arg[p].key]))])

\* _, ok := db.data[key]; return ok
ExistsData(p) ==
    Return(p, "Exists_data", [NoRet EXCEPT !.ok = arg[p].key \in DOMAIN data])

ExistsUnlock(p) == Unlock(p, "Exists_unlock")

Exists(p) ==
    \/ ExistsLock(p)
    \/ ExistsData(p)
    \/ ExistsUnlock(p)

\* ---- Keys ----

KeysCall(p) == Call(p, CallOf("Keys", "", "", 0))

KeysLock(p) == Lock(p, "Keys_lock", "Keys_range")

\* for key := range db.data { keys = append(keys, key) }: a map is ranged over
\* in no particular order, each key it holds once.
KeysRange(p) ==
    /\ pc[p] = "Keys_range"
    /\ \E k \in (DOMAIN data) \ Range(local[p].keys) :
          local' = [local EXCEPT ![p].keys = Append(@, k)]
    /\ UNCHANGED <<now, single, store, mu, pc, db, arg, ret, tracing, last>>

\* A Keys whose loop may stop before it has visited every key.
KeysReturnEarly(p) ==
    Return(p, "Keys_range", [NoRet EXCEPT !.keys = local[p].keys])

\* return keys
KeysReturn(p) ==
    /\ (DOMAIN data) \ Range(local[p].keys) = {}
    /\ Return(p, "Keys_range", [NoRet EXCEPT !.keys = local[p].keys])

KeysUnlock(p) == Unlock(p, "Keys_unlock")

KeysOp(p) ==
    \/ KeysLock(p)
    \/ KeysRange(p)
    \/ KeysReturn(p)
    \/ KeysUnlock(p)

\* ---- SetExpiration ----

SetExpirationCall(p, k, e) == Call(p, CallOf("SetExpiration", k, "", e))

SetExpirationLock(p) == Lock(p, "SetExpiration_lock", "SetExpiration_data")

\* A SetExpiration that does not look the key up in data.
SetExpirationDataNoLookup(p) ==
    /\ pc[p] = "SetExpiration_data"
    /\ Goto(p, IF arg[p].expiration = 0 THEN "SetExpiration_unlock"
               ELSE "SetExpiration_exp")
    /\ UNCHANGED <<now, single, store, mu, db, arg, local, ret, tracing, last>>

\* _, exists := d.data[key]; if !exists { return }; if expiration == 0 { return }
SetExpirationData(p) ==
    /\ pc[p] = "SetExpiration_data"
    /\ Goto(p, IF arg[p].key \notin DOMAIN data THEN "SetExpiration_unlock"
               ELSE IF arg[p].expiration = 0 THEN "SetExpiration_unlock"
               ELSE "SetExpiration_exp")
    /\ UNCHANGED <<now, single, store, mu, db, arg, local, ret, tracing, last>>

\* A SetExpiration that overwrites a deadline the key already has.
SetExpirationExpOverwrites(p) ==
    LoadMap(p, "SetExpiration_exp", "SetExpiration_exp_w",
            Put(expiration, arg[p].key, Deadline(arg[p].expiration)))

\* if _, ok := d.expiration[key]; !ok { d.expiration[key] = time.Now().Add(...) }
SetExpirationExp(p) ==
    /\ arg[p].key \notin DOMAIN expiration
    /\ LoadMap(p, "SetExpiration_exp", "SetExpiration_exp_w",
               Put(expiration, arg[p].key, Deadline(arg[p].expiration)))

\* ... else { the key already has an expiration time }
SetExpirationKeep(p) ==
    /\ pc[p] = "SetExpiration_exp"
    /\ arg[p].key \in DOMAIN expiration
    /\ Goto(p, "SetExpiration_unlock")
    /\ UNCHANGED <<now, single, store, mu, db, arg, local, ret, tracing, last>>

SetExpirationExpW(p) ==
    StoreExpiration(p, "SetExpiration_exp_w", "SetExpiration_unlock")

SetExpirationUnlock(p) == Unlock(p, "SetExpiration_unlock")

SetExpiration(p) ==
    \/ SetExpirationLock(p)
    \/ SetExpirationData(p)
    \/ SetExpirationExp(p)
    \/ SetExpirationKeep(p)
    \/ SetExpirationExpW(p)
    \/ SetExpirationUnlock(p)

\* ---- the driver: any goroutine may make any call ----

Calls(p, K, V, T) ==
    \/ \E k \in K, v \in V, e \in T : SetCall(p, k, v, e)
    \/ \E k \in K : GetCall(p, k)
    \/ \E k \in K : DeleteCall(p, k)
    \/ \E k \in K : ExistsCall(p, k)
    \/ KeysCall(p)
    \/ \E k \in K, e \in T : SetExpirationCall(p, k, e)

Step(p) ==
    \/ GetInstance(p)
    \/ Set(p)
    \/ Get(p)
    \/ Delete(p)
    \/ Exists(p)
    \/ KeysOp(p)
    \/ SetExpiration(p)

\* Concurrent goroutines, every interleaving of their statements.
Init == InitOf(Procs, FALSE)
Next == Tick \/ \E p \in Procs : Step(p) \/ Calls(p, Keys, FewValues, FewTTLs)
Spec == Init /\ [][Next]_vars

\* Concurrent goroutines calling on one key, under fair scheduling: the Go scheduler is preemptive, so a
\* goroutine that can take a step eventually takes it, and a sync.Mutex hands
\* the lock to a goroutine that has waited on it (starvation mode), so a
\* goroutine that finds the lock free again and again eventually gets it.
LockStep(p) ==
    \/ OnceLock(p)
    \/ SetLock(p)
    \/ GetLock(p)
    \/ DeleteLock(p)
    \/ ExistsLock(p)
    \/ KeysLock(p)
    \/ SetExpirationLock(p)
Fairness == \A p \in Procs : WF_vars(Step(p)) /\ SF_vars(LockStep(p))
OneKey == {"a"}
FairNext == Tick \/ \E p \in Procs : Step(p) \/ Calls(p, OneKey, FewValues, FewTTLs)
FairSpec == Init /\ [][FairNext]_vars /\ Fairness

\* One goroutine (the loop of main) making one call after the other.
SeqInit == InitOf(SeqProcs, TRUE)
SeqNext == Tick \/ \E p \in SeqProcs : Step(p) \/ Calls(p, Keys, Values, TTLs)
SeqSpec == SeqInit /\ [][SeqNext]_vars

\* The same, with a ttl whose duration overflows among the arguments.
WideNext == Tick \/ \E p \in SeqProcs : Step(p) \/ Calls(p, Keys, Values, WideTTLs)
WideSpec == SeqInit /\ [][WideNext]_vars

\* The same, with a negative ttl whose duration overflows among the arguments.
NegNext == Tick \/ \E p \in SeqProcs : Step(p) \/ Calls(p, Keys, Values, NegTTLs)
NegSpec == SeqInit /\ [][NegNext]_vars

\* Concurrent callers of GetInstance.
OnceInit == InitOf(Callers, FALSE)
OnceNext == \E p \in Callers : GetInstance(p)
OnceSpec == OnceInit /\ [][OnceNext]_vars

\* Concurrent goroutines calling Set, Get and Delete, each on a key of its own.
KeyOf(p) == IF p = 1 THEN "a" ELSE "b"
DisjointInit == InitOf(Procs, FALSE)
DisjointNext ==
    \/ Tick
    \/ \E p \in Procs :
          \/ GetInstance(p)
          \/ \E v \in Values, e \in FewTTLs : SetCall(p, KeyOf(p), v, e)
          \/ GetCall(p, KeyOf(p))
          \/ DeleteCall(p, KeyOf(p))
          \/ Set(p)
          \/ Get(p)
          \/ Delete(p)
DisjointSpec == DisjointInit /\ [][DisjointNext]_vars

\* ---- what the claims are stated with ----

Goroutines == DOMAIN pc
Key(p) == arg[p].key
HasTTL(k) == k \in DOMAIN expiration
Present(k) == k \in DOMAIN data

\* The stored deadline of k is strictly before the current time.
Elapsed(k) == HasTTL(k) /\ expiration[k] < now

\* The step is p executing a return statement of the call it is in.
Returns(p) ==
    /\ pc'[p] = arg[p].op \o "_unlock"
    /\ pc[p] # pc'[p]

NotFound(r) == r.value = "" /\ ~r.ok
Found(r, v) == r.value = v /\ r.ok

\* What the two maps hold for k.
Entry(k) ==
    <<IF Present(k) THEN <<data[k]>> ELSE <<>>,
      IF HasTTL(k) THEN <<expiration[k]>> ELSE <<>>>>

\* p is between the two deletes of a Delete or of the purge of a Get.
Removing(p, k) ==
    /\ mu = p
    /\ Key(p) = k
    /\ pc[p] \in {"Delete_exp", "Delete_exp_w", "Get_del_exp", "Get_del_exp_w"}

\* C1: in every reachable state of every interleaving, each key with an entry
\* in expiration has an entry in data; the one exception is the key that the
\* holder of the lock is removing, between its delete of the data entry and
\* its delete of the expiration entry, which no other call can observe.
C1_ExpirationWithinData ==
    \A k \in DOMAIN expiration : Present(k) \/ \E p \in Goroutines : Removing(p, k)

\* C1 witness: with the lock free, a key has a deadline that has elapsed and
\* the other key was set without one.
C1_Witness ==
    /\ mu = NoProc
    /\ \E k \in Keys : Elapsed(k) /\ Present(k)
    /\ \E k \in Keys : Present(k) /\ ~HasTTL(k)

\* C9: under every interleaving of concurrent callers of GetInstance the
\* Database is constructed at most once, a caller that reaches its return
\* finds the construction completed (exactly one object, instance set, done
\* stored), and all handles returned are the same object.
C9_SingleInstance ==
    /\ constructed <= 1
    /\ \A p \in Goroutines : pc[p] = "GetInstance_ret" =>
          constructed = 1 /\ instance = 1 /\ once.done
    /\ \A p \in Goroutines : db[p] # Nil => db[p] = instance /\ instance = 1

\* C9 witness: two first-time callers both took the slow path; one has
\* returned the instance, the other finds done set under the mutex of once.
C9_Witness ==
    \E p, q \in Goroutines :
        /\ p # q
        /\ db[p] = 1
        /\ pc[q] = "Once_check"
        /\ once.done

\* C2 (as claimed): whenever a Get, Exists or SetExpiration executes a return
\* statement while the key it was called with is present with a deadline
\* strictly before the current time, the key is gone from both maps and is
\* reported absent; and Keys never lists such a key.
C2_PurgeOnEveryObservation ==
    [][\A p \in Goroutines :
          /\ ( /\ arg[p].op \in {"Get", "Exists", "SetExpiration"}
               /\ Returns(p)
               /\ Present(Key(p)) /\ Elapsed(Key(p)) )
             => ( /\ Key(p) \notin DOMAIN data'
                  /\ Key(p) \notin DOMAIN expiration'
                  /\ ~ret'[p].ok )
          /\ ( /\ pc[p] = "Keys_range"
               /\ Len(local'[p].keys) > Len(local[p].keys) )
             => LET k == local'[p].keys[Len(local'[p].keys)]
                IN  ~(Present(k) /\ Elapsed(k))
      ]_vars

\* C3 (as claimed): a Get(key) that follows Set(key, value, 0) with no clock
\* advance and no other call in between returns (value, true), whatever the
\* store held before the Set.
C3_SetThenGet ==
    \A p \in Goroutines :
        ( /\ pc[p] = "Get_unlock"
          /\ last.op = "Set" /\ last.key = Key(p) /\ last.expiration = 0 )
        => Found(ret[p], last.value)

\* C4 (as claimed): Set(key, value, ttl) with ttl > 0 computes the deadline
\* now + ttl seconds and stores it in place of any earlier one; the Get(key)
\* that follows it immediately returns (value, true); and a Get(key) that
\* finds the stored deadline strictly before the current time purges the key.
C4_SetWithTTL ==
    [][\A p \in Goroutines :
          /\ (pc[p] = "Set_exp" /\ pc'[p] = "Set_exp_w")
             => local'[p].m[Key(p)] = now + arg[p].expiration * Second
          /\ (pc[p] = "Set_exp_w" /\ pc'[p] = "Set_unlock")
             => ( /\ Key(p) \in DOMAIN expiration'
                  /\ expiration'[Key(p)] = local[p].m[Key(p)] )
          /\ ( /\ arg[p].op = "Get" /\ Returns(p)
               /\ last.op = "Set" /\ last.key = Key(p) /\ last.expiration > 0 )
             => Found(ret'[p], last.value)
          /\ (pc[p] = "Get_exp" /\ pc'[p] # pc[p] /\ Elapsed(Key(p)))
             => pc'[p] = "Get_del_data"
          /\ (pc[p] = "Get_expired" /\ pc'[p] # pc[p])
             => NotFound(ret'[p])
      ]_vars

\* C5: a Delete that reaches its return has removed its key from both maps,
\* and changes neither map when the key is in neither; a key that is absent
\* from data stays absent until a Set of that key stores it; and a Get of a
\* key that is absent returns ("", false).  Hence Delete(key) followed by
\* Get(key) with no Set of that key in between returns ("", false), as does
\* in particular the Get that follows the Delete immediately.
C5_DeleteThenGet ==
    /\ [](\A p \in Goroutines :
            /\ pc[p] = "Delete_unlock"
               => ~Present(Key(p)) /\ ~HasTTL(Key(p))
            /\ (pc[p] = "Get_unlock" /\ ~Present(Key(p)))
               => NotFound(ret[p])
            /\ ( /\ pc[p] = "Get_unlock"
                 /\ last.op = "Delete" /\ last.key = Key(p) )
               => NotFound(ret[p]))
    /\ [][/\ \A p \in Goroutines :
               ( /\ arg[p].op = "Delete"
                 /\ ~Present(Key(p)) /\ ~HasTTL(Key(p)) )
               => UNCHANGED store
          /\ \A k \in Keys :
               (~Present(k) /\ k \in DOMAIN data')
               => \E p \in Goroutines : arg[p].op = "Set" /\ Key(p) = k
         ]_vars

\* C5 witness: the Get that immediately follows a Delete of its key is
\* returning ("", false) while the other key is still stored with a deadline.
C5_Witness ==
    \E p \in Goroutines :
        /\ pc[p] = "Get_unlock"
        /\ last.op = "Delete" /\ last.key = Key(p)
        /\ NotFound(ret[p])
        /\ \E k \in Keys \ {Key(p)} : Present(k) /\ HasTTL(k)

\* C6: under every interleaving, the result an Exists(key) returns is true
\* exactly when key has an entry in data, whatever the expiration map holds.
C6_ExistsIsMembership ==
    \A p \in Goroutines :
        pc[p] = "Exists_unlock" => (ret[p].ok <=> Present(Key(p)))

\* C6 witness: Exists is returning true for a key whose deadline has passed
\* and that no Get has purged.
C6_Witness ==
    \E p \in Goroutines :
        /\ pc[p] = "Exists_unlock"
        /\ Present(Key(p)) /\ Elapsed(Key(p))
        /\ ret[p].ok

\* C7: while a key has an entry in expiration, no step of a SetExpiration
\* call on that key, whatever its ttl, changes the stored deadline or the
\* stored value.
C7_SetExpirationKeepsDeadline ==
    [][\A p \in Goroutines :
          ( /\ arg[p].op = "SetExpiration"
            /\ Present(Key(p)) /\ HasTTL(Key(p)) )
          => ( /\ Key(p) \in DOMAIN expiration'
               /\ expiration'[Key(p)] = expiration[Key(p)]
               /\ Key(p) \in DOMAIN data'
               /\ data'[Key(p)] = data[Key(p)] )
      ]_vars

\* C7 witness: a SetExpiration with a negative ttl is returning and its key
\* still has a deadline in the future: the deadline it found was kept.
C7_Witness ==
    \E p \in Goroutines :
        /\ pc[p] = "SetExpiration_unlock"
        /\ arg[p].expiration < 0
        /\ Present(Key(p)) /\ HasTTL(Key(p))
        /\ expiration[Key(p)] > now

\* C8 (as claimed): SetExpiration(key, t) with t > 0 on a present key without
\* a deadline computes and stores the deadline now + t seconds and leaves the
\* value alone; and a Get of a key with a deadline purges it exactly when the
\* deadline is strictly before the current time.
C8_SetExpirationSetsDeadline ==
    [][\A p \in Goroutines :
          /\ ( /\ pc[p] = "SetExpiration_exp"
               /\ pc'[p] = "SetExpiration_exp_w"
               /\ arg[p].expiration > 0 )
             => local'[p].m[Key(p)] = now + arg[p].expiration * Second
          /\ (pc[p] = "SetExpiration_exp_w" /\ pc'[p] # pc[p])
             => ( /\ Key(p) \in DOMAIN expiration'
                  /\ expiration'[Key(p)] = local[p].m[Key(p)]
                  /\ data' = data )
          /\ (pc[p] = "Get_exp" /\ pc'[p] # pc[p] /\ HasTTL(Key(p)))
             => (pc'[p] = "Get_del_data" <=> expiration[Key(p)] < now)
      ]_vars

\* C10: with every goroutine calling Set, Get and Delete on a key of its own,
\* under every interleaving: what the maps hold for a key changes only in a
\* step of the goroutine that owns the key, made while it holds the lock (so
\* no call on one key changes the entries of another, and between two calls of
\* its owner a key keeps what the earlier call left); and every call returns
\* with its own effect in place: after Set the value is the one set, with a
\* deadline if ttl > 0; after Delete the key is in neither map; and Get
\* returns (value, true) for the value stored, or ("", false) with the key
\* absent.
C10_DisjointKeys ==
    /\ [](\A p \in Goroutines :
            /\ pc[p] = "Set_unlock"
               => ( /\ Present(Key(p)) /\ data[Key(p)] = arg[p].value
                    /\ arg[p].expiration > 0
                       => ( /\ HasTTL(Key(p))
                            /\ expiration[Key(p)] <= now + Seconds(arg[p].expiration)
                            /\ expiration[Key(p)] >= Seconds(arg[p].expiration) ) )
            /\ pc[p] = "Delete_unlock"
               => ~Present(Key(p)) /\ ~HasTTL(Key(p))
            /\ pc[p] = "Get_unlock"
               => IF ret[p].ok
                    THEN Present(Key(p)) /\ data[Key(p)] = ret[p].value
                    ELSE ~Present(Key(p)) /\ ~HasTTL(Key(p)) /\ ret[p].value = "")
    /\ [][\A k \in Keys :
             Entry(k)' # Entry(k)
             => \E p \in Goroutines :
                   KeyOf(p) = k /\ Key(p) = k /\ mu = p /\ pc'[p] # pc[p]
         ]_vars

\* C10 witness: one goroutine is returning from a Get that purged its key
\* while the other is in the middle of a Set of its own key, whose earlier
\* entry carries a deadline.
C10_Witness ==
    \E p, q \in Goroutines :
        /\ p # q
        /\ pc[p] = "Get_unlock" /\ ~ret[p].ok
        /\ pc[q] = "Set_lock"
        /\ Present(Key(q)) /\ HasTTL(Key(q))

\* The positions outside the critical sections: idle, inside GetInstance, and
\* waiting at the Lock() of a method.
Outside ==
    {"idle", "Once_load", "Once_lock", "Once_check", "Construct", "Once_store",
     "Once_unlock", "GetInstance_ret"}
    \cup {o \o "_lock" : o \in {"Set", "Get", "Delete", "Exists", "Keys",
                                "SetExpiration"}}

\* p is at a statement between the Lock() and the deferred Unlock() of a
\* method: the statements that read or write data and expiration.
InCritical(p) == pc[p] \notin Outside

\* C11: under every interleaving, a goroutine that is at a statement of a
\* critical section (where every read and write of data and expiration is)
\* holds mu, so at most one is there at a time, two Gets included; and the
\* maps change only in a step of the goroutine that holds mu.
C11_MutualExclusion ==
    /\ [](\A p \in Goroutines : InCritical(p) => mu = p)
    /\ [](\A p, q \in Goroutines : (InCritical(p) /\ InCritical(q)) => p = q)
    /\ [][store' # store
          => \E p \in Goroutines : mu = p /\ InCritical(p) /\ pc'[p] # pc[p]
         ]_vars

\* C11 witness: one Get is inside its critical section, reading expiration,
\* while another Get waits at Lock().
C11_Witness ==
    \E p, q \in Goroutines :
        /\ p # q
        /\ pc[p] = "Get_exp" /\ mu = p
        /\ pc[q] = "Get_lock"

C13_NoDeadlineNeverExpires ==
    /\ [](\A p \in Goroutines :
            (pc[p] = "Get_unlock" /\ Present(Key(p)) /\ ~HasTTL(Key(p)))
            => Found(ret[p], data[Key(p)]))
    /\ [][\A k \in Keys :
             (Present(k) /\ ~HasTTL(k))
             => /\ (k \notin DOMAIN data')
                   => \E p \in Goroutines : arg[p].op = "Delete" /\ Key(p) = k
                /\ (k \in DOMAIN expiration')
                   => \E p \in Goroutines :
                         /\ Key(p) = k
                         /\ \/ arg[p].op = "Set" /\ arg[p].expiration > 0
                            \/ arg[p].op = "SetExpiration"
         ]_vars

\* C13 witness: with the clock at its end, a Get of a key without a deadline
\* is returning its value, while the other key's deadline has elapsed.
C13_Witness ==
    \E p \in Goroutines :
        /\ pc[p] = "Get_unlock"
        /\ now = MaxClock
        /\ Present(Key(p)) /\ ~HasTTL(Key(p))
        /\ Found(ret[p], data[Key(p)])
        /\ \E k \in Keys \ {Key(p)} : Present(k) /\ Elapsed(k)

\* C14: no step of a Set(key, value, 0) changes the expiration map: a
\* deadline the key has stays exactly as it was, and a key without one gets
\* none; and the Set returns with value stored for the key.
C14_SetZeroKeepsDeadline ==
    /\ [](\A p \in Goroutines :
            (pc[p] = "Set_unlock" /\ arg[p].expiration = 0)
            => (Present(Key(p)) /\ data[Key(p)] = arg[p].value))
    /\ [][\A p \in Goroutines :
             (arg[p].op = "Set" /\ arg[p].expiration = 0)
             => ( /\ HasTTL(Key(p)) <=> (Key(p) \in DOMAIN expiration')
                  /\ HasTTL(Key(p)) => expiration'[Key(p)] = expiration[Key(p)]
                  /\ expiration' = expiration )
         ]_vars

\* C14 witness: a Set with ttl 0 is returning, having stored its value for a
\* key that keeps a deadline which has already elapsed.
C14_Witness ==
    \E p \in Goroutines :
        /\ pc[p] = "Set_unlock"
        /\ arg[p].expiration = 0
        /\ data[Key(p)] = arg[p].value
        /\ Elapsed(Key(p))

\* C15: when a Get of a present key with an expiration entry compares the
\* deadline with the clock, it goes on to the purge exactly when the deadline
\* is strictly before now, and otherwise (now equal to the deadline included)
\* returns (value, true) with both maps as they were; the purge deletes the
\* key from both maps, changes the maps in no other step of the Get, and
\* returns ("", false).  A key that is absent stays absent until a step of a
\* Set of that key; an Exists of an absent key returns false and the list
\* Keys returns holds no absent key.
C15_GetPurgesPastDeadline ==
    /\ [](\A p \in Goroutines :
            /\ pc[p] = "Get_expired"
               => ~Present(Key(p)) /\ ~HasTTL(Key(p))
            /\ (pc[p] = "Exists_unlock" /\ ~Present(Key(p)))
               => ~ret[p].ok
            /\ pc[p] = "Keys_unlock"
               => Range(ret[p].keys) \subseteq DOMAIN data)
    /\ [][/\ \A p \in Goroutines :
               /\ ( /\ pc[p] = "Get_exp" /\ pc'[p] # pc[p]
                    /\ HasTTL(Key(p)) )
                  => IF expiration[Key(p)] < now
                       THEN pc'[p] = "Get_del_data"
                       ELSE /\ pc'[p] = "Get_unlock"
                            /\ Found(ret'[p], data[Key(p)])
                            /\ UNCHANGED store
               /\ (pc[p] = "Get_expired" /\ pc'[p] # pc[p])
                  => NotFound(ret'[p])
               /\ (arg[p].op = "Get" /\ store' # store)
                  => pc[p] \in {"Get_del_data_w", "Get_del_exp_w"}
          /\ \A k \in Keys :
               (~Present(k) /\ k \in DOMAIN data')
               => \E p \in Goroutines : arg[p].op = "Set" /\ Key(p) = k
         ]_vars

\* C15 witness: a Get is returning (value, true) for a key whose deadline is
\* exactly now, the key still in both maps.
C15_Witness ==
    \E p \in Goroutines :
        /\ pc[p] = "Get_unlock"
        /\ HasTTL(Key(p)) /\ expiration[Key(p)] = now
        /\ Present(Key(p))
        /\ Found(ret[p], data[Key(p)])

\* C16: no step of a SetExpiration(key, t) changes data or expiration when
\* the key is absent from data, whatever t is, or when t = 0, whether or not
\* the key has a deadline; in particular a missing key gets no expiration
\* entry.
C16_SetExpirationNoOp ==
    [][\A p \in Goroutines :
          ( /\ arg[p].op = "SetExpiration"
            /\ ~Present(Key(p)) \/ arg[p].expiration = 0 )
          => UNCHANGED store
      ]_vars

\* C16 witness: a SetExpiration with a ttl other than 0 is returning for a
\* key that is absent and has no expiration entry, while the other key has a
\* deadline.
C16_Witness ==
    \E p \in Goroutines :
        /\ pc[p] = "SetExpiration_unlock"
        /\ arg[p].expiration # 0
        /\ ~Present(Key(p)) /\ ~HasTTL(Key(p))
        /\ \E k \in Keys \ {Key(p)} : Present(k) /\ HasTTL(k)

\* C17: under every interleaving, the list a Keys() returns holds exactly the
\* keys that have an entry in data, each of them once, whether or not their
\* deadlines have passed.
C17_KeysIsDomain ==
    \A p \in Goroutines :
        pc[p] = "Keys_unlock"
        => /\ Range(ret[p].keys) = DOMAIN data
           /\ Len(ret[p].keys) = Cardinality(DOMAIN data)

\* C17 witness: Keys is returning two keys, one of which has a deadline that
\* has passed and the other none.
C17_Witness ==
    \E p \in Goroutines :
        /\ pc[p] = "Keys_unlock"
        /\ Len(ret[p].keys) = 2
        /\ \E k \in Range(ret[p].keys) : Elapsed(k)
        /\ \E k \in Range(ret[p].keys) : ~HasTTL(k)

\* The step is one of goroutine p.
StepOf(p) == pc'[p] # pc[p] \/ local'[p] # local[p]

\* C18: under every interleaving, no step of an Exists or of a Keys changes
\* data or expiration, whatever deadlines have passed; and a step of a
\* Get(key) changes them only while key has a deadline strictly before now,
\* only as one of the two deletes of the purge, and leaves the entries of
\* every other key as they were.
C18_ReadsChangeNothing ==
    [][\A p \in Goroutines :
          StepOf(p) =>
             /\ arg[p].op \in {"Exists", "Keys"} => UNCHANGED store
             /\ (arg[p].op = "Get" /\ store' # store)
                => /\ Elapsed(Key(p))
                   /\ pc[p] \in {"Get_del_data_w", "Get_del_exp_w"}
                   /\ Key(p) \notin DOMAIN data'
                   /\ \A k \in Keys \ {Key(p)} : Entry(k)' = Entry(k)
      ]_vars

\* C18 witness: a Get has purged its key and is about to return, and the
\* other key, whose deadline has passed as well, is still in both maps.
C18_Witness ==
    \E p \in Goroutines :
        /\ pc[p] = "Get_expired"
        /\ ~Present(Key(p)) /\ ~HasTTL(Key(p))
        /\ \E k \in Keys \ {Key(p)} : Present(k) /\ Elapsed(k)

\* C19: whenever the expiration entry of a key disappears, the step is one of
\* a Delete or of a Get of that key and leaves the key without a data entry
\* (so no step takes a key from an entry in both maps to an entry in data
\* only); a key enters data only in a step of a Set of that key; and a Set
\* with ttl > 0 returns with an expiration entry for its key.  Hence a key
\* that had a deadline is without one again only after it was absent and
\* stored anew by a Set without a positive ttl.
C19_DeadlineGoesWithValue ==
    /\ [](\A p \in Goroutines :
            (pc[p] = "Set_unlock" /\ arg[p].expiration > 0) => HasTTL(Key(p)))
    /\ [][\A k \in Keys :
             /\ (HasTTL(k) /\ k \notin DOMAIN expiration')
                => /\ k \notin DOMAIN data'
                   /\ \E p \in Goroutines :
                         /\ StepOf(p) /\ Key(p) = k
                         /\ arg[p].op \in {"Delete", "Get"}
                         /\ arg[p].op = "Get" => expiration[k] < now
             /\ (Present(k) /\ HasTTL(k) /\ k \in DOMAIN data')
                => k \in DOMAIN expiration'
             /\ (~Present(k) /\ k \in DOMAIN data')
                => \E p \in Goroutines :
                      StepOf(p) /\ arg[p].op = "Set" /\ Key(p) = k
         ]_vars

\* C19 witness: the purge of a Get is about to remove the expiration entry of
\* its key, whose data entry it has already removed, while the other key is
\* in data without a deadline.
C19_Witness ==
    \E p \in Goroutines :
        /\ pc[p] = "Get_del_exp_w"
        /\ ~Present(Key(p)) /\ HasTTL(Key(p))
        /\ Key(p) \notin DOMAIN local[p].m
        /\ \E k \in Keys \ {Key(p)} : Present(k) /\ ~HasTTL(k)

\* C20 (as claimed): no step of a Set with ttl < 0 changes the expiration map,
\* and the Set returns with its value stored, as with ttl 0; a SetExpiration
\* with ttl < 0 on a present key without a deadline computes and stores a
\* deadline strictly before the current time; and the Get of that key that
\* follows a SetExpiration with ttl < 0 immediately returns ("", false), unless
\* the key already had a deadline that has not passed.
C20_NegativeTTL ==
    /\ [](\A p \in Goroutines :
            /\ (pc[p] = "Set_unlock" /\ arg[p].expiration < 0)
               => (Present(Key(p)) /\ data[Key(p)] = arg[p].value)
            /\ ( /\ pc[p] = "Get_unlock"
                 /\ last.op = "SetExpiration" /\ last.key = Key(p)
                 /\ last.expiration < 0 )
               => \/ NotFound(ret[p])
                  \/ HasTTL(Key(p)) /\ expiration[Key(p)] >= now
                     /\ expiration[Key(p)] # now + Seconds(last.expiration))
    /\ [][\A p \in Goroutines :
             /\ (arg[p].op = "Set" /\ arg[p].expiration < 0)
                => expiration' = expiration
             /\ ( /\ pc[p] = "SetExpiration_data" /\ pc'[p] # pc[p]
                  /\ Present(Key(p)) /\ ~HasTTL(Key(p))
                  /\ arg[p].expiration < 0 )
                => pc'[p] = "SetExpiration_exp"
             /\ ( /\ pc[p] = "SetExpiration_exp"
                  /\ pc'[p] = "SetExpiration_exp_w"
                  /\ arg[p].expiration < 0 )
                => local'[p].m[Key(p)] < now
             /\ (pc[p] = "SetExpiration_exp_w" /\ pc'[p] # pc[p])
                => ( /\ Key(p) \in DOMAIN expiration'
                     /\ expiration'[Key(p)] = local[p].m[Key(p)] )
         ]_vars

====
